---- MODULE Spec2Model ----
(***************************************************************************)
(* State-machine model of src/main.js, a two-fighter canvas game.          *)
(*                                                                         *)
(* JavaScript runs every callback to completion, so each action below is   *)
(* one whole callback: a frame (animate), a key event, the one-second      *)
(* countdown callback (decreaseTimer) or an attack-reset timeout.          *)
(*                                                                         *)
(* Units.  Horizontal quantities are pixels.  Vertical quantities (y, vy,  *)
(* the attack box's y) are TENTHS of a pixel, because GRAVITY is 0.7: all  *)
(* vertical values the program computes are multiples of 0.1, and the      *)
(* tenths arithmetic below decides every comparison of the source the same *)
(* way as its doubles do (the closest a comparison comes to equality on    *)
(* the two trajectories, the opening drop and a jump, is 1.5 pixels).      *)
(***************************************************************************)
EXTENDS Integers, FiniteSets, Sequences

\* ---------------------------------------------------------------- constants
GRAVITY == 7                 \* 0.7 pixel per frame per frame, in tenths
GAME_WIDTH == 1024
GAME_HEIGHT == 576
GROUND_HEIGHT == 96
Width == 50                  \* Sprite.width
Height == 150                \* Sprite.height
AttackBoxWidth == 100
AttackBoxHeight == 50
OffsetX == 0                 \* attackBox.offset.x of both sprites
OffsetY == 50                \* attackBox.offset.y of both sprites
StartHealth == 100
StartTimer == 60
PlayerStartX == 100
EnemyStartX == 800
JumpImpulse == 15            \* velocity.y = -15, pixels per frame
PlayerSpeed == 5
EnemySpeed == 2
Damage == 10
DetectionRange == 400
AttackRange == 60

\* ------------------------------------------------------------------- bounds
MaxPending == 2              \* attack-reset timeouts pending per sprite
MaxEvals == 3                \* calls of determineWinner that are followed
MaxFrames == 5               \* budgeted frames (SpecMove, SpecBrawl)
TimerLeft == 2               \* seconds left on the clock when a scenario opens

T(n) == n * 10               \* pixels to tenths
Abs(n) == IF n < 0 THEN -n ELSE n
GroundLine == T(GAME_HEIGHT - Height - GROUND_HEIGHT)

VARIABLES
  player,       \* Sprite: the human-controlled fighter
  enemy,        \* Sprite: the AI fighter
  keys,         \* keys.a.pressed, keys.d.pressed
  timer,        \* seconds left
  timerId,      \* handle of the latest countdown timeout (0: none yet)
  timeouts,     \* handles of the countdown timeouts still pending
  gameRunning,
  result,       \* resultDisplay.innerHTML
  started,      \* the script has run to its end (decreaseTimer(); animate())
  evals,        \* history: calls of determineWinner, by caller
  decrements,   \* history: executions of timer--
  frames,       \* history: frames counted against MaxFrames
  last          \* history: what the latest step was and did

vars == <<player, enemy, keys, timer, timerId, timeouts, gameRunning, result,
          started, evals, decrements, frames, last>>

\* ------------------------------------------------------------------- Sprite
\* new Sprite({position: {x, y: 0}, velocity: {x: 0, y: 0}, offset})
Sprite(x0, dir0) ==
  [x |-> x0, y |-> 0, vx |-> 0, vy |-> 0,
   abx |-> x0, aby |-> 0,
   isAttacking |-> FALSE, health |-> StartHealth, isDead |-> FALSE,
   direction |-> dir0, lastKey |-> "",
   resets |-> 0]             \* pending timeouts of attack()

\* Mutant: the mirrored box forgets the sprite's own width.
AttackBoxXNoWidth(x, dir) ==
  IF dir = 1 THEN x + OffsetX ELSE x - AttackBoxWidth - OffsetX

\* The attack box's x for a sprite at x facing dir.
AttackBoxX(x, dir) ==
  IF dir = 1 THEN x + OffsetX
             ELSE x - AttackBoxWidth + Width - OffsetX

\* Whether the projected bottom edge is on or under the ground line.
Grounded(y1, vy) == y1 + T(Height) + vy >= T(GAME_HEIGHT - GROUND_HEIGHT)

\* Mutant: only the left wall stops a sprite.
ClampXLeft(x) == IF x < 0 THEN 0 ELSE x

ClampX(x) ==
  LET x1 == IF x < 0 THEN 0 ELSE x
  IN  IF x1 + Width > GAME_WIDTH THEN GAME_WIDTH - Width ELSE x1

\* Mutant: the dead are moved like the living.
updateDead(s) ==
  LET y1 == s.y + s.vy
      g  == Grounded(y1, s.vy)
  IN  [s EXCEPT !.abx = AttackBoxX(s.x, s.direction),
                !.aby = s.y + T(OffsetY),
                !.x = ClampX(s.x + s.vx),
                !.y = IF g THEN GroundLine ELSE y1,
                !.vy = IF g THEN 0 ELSE s.vy + GRAVITY]

\* Mutant: ground contact zeroes the velocity but does not pin the position.
updateNoPin(s) ==
  IF s.isDead THEN s
  ELSE LET y1 == s.y + s.vy
           g  == Grounded(y1, s.vy)
       IN  [s EXCEPT !.abx = AttackBoxX(s.x, s.direction),
                     !.aby = s.y + T(OffsetY),
                     !.x = ClampX(s.x + s.vx),
                     !.y = y1,
                     !.vy = IF g THEN 0 ELSE s.vy + GRAVITY]

\* Sprite.update(), without the drawing.
update(s) ==
  IF s.isDead THEN s
  ELSE LET y1 == s.y + s.vy
           g  == Grounded(y1, s.vy)
       IN  [s EXCEPT !.abx = AttackBoxX(s.x, s.direction),
                     !.aby = s.y + T(OffsetY),
                     !.x = ClampX(s.x + s.vx),
                     !.y = IF g THEN GroundLine ELSE y1,
                     !.vy = IF g THEN 0 ELSE s.vy + GRAVITY]

\* Mutant: attack() sets the flag and schedules nothing.
attackNoTimeout(s) == [s EXCEPT !.isAttacking = TRUE]

\* Sprite.attack(): the flag, and one more reset timeout pending.
attack(s) == [s EXCEPT !.isAttacking = TRUE, !.resets = @ + 1]

\* Mutant: death only below 0 (health < 0 for health <= 0).
takeHitStrict(s, damage) ==
  LET h == s.health - damage
  IN  IF h < 0 THEN [s EXCEPT !.health = 0, !.isDead = TRUE]
              ELSE [s EXCEPT !.health = h]

\* Sprite.takeHit(damage)
takeHit(s, damage) ==
  LET h == s.health - damage
  IN  IF h <= 0 THEN [s EXCEPT !.health = 0, !.isDead = TRUE]
               ELSE [s EXCEPT !.health = h]

\* rectangularCollision: r1's attack box against r2's body, bounds inclusive.
rectangularCollision(r1, r2) ==
  /\ r1.abx + AttackBoxWidth >= r2.x
  /\ r1.abx <= r2.x + Width
  /\ r1.aby + T(AttackBoxHeight) >= r2.y
  /\ r1.aby <= r2.y + T(Height)

\* -------------------------------------------------------------------- world
\* The program state as one record, so that the callbacks are functions.
World ==
  [player |-> player, enemy |-> enemy, keys |-> keys, timer |-> timer,
   timerId |-> timerId, timeouts |-> timeouts, gameRunning |-> gameRunning,
   result |-> result, evals |-> evals, decrements |-> decrements]

\* The state when the script starts to run its last two lines.
Constructed ==
  [player |-> Sprite(PlayerStartX, 1), enemy |-> Sprite(EnemyStartX, -1),
   keys |-> [a |-> FALSE, d |-> FALSE], timer |-> StartTimer,
   timerId |-> 0, timeouts |-> {}, gameRunning |-> TRUE, result |-> "",
   evals |-> [timer |-> 0, loop |-> 0], decrements |-> 0]

\* Mutant: the comparison of the two healths is the wrong way round.
OutcomeSwapped(ph, eh) ==
  IF ph = eh THEN "Tie"
  ELSE IF ph < eh THEN "Player 1 Wins" ELSE "Enemy Wins"

\* The message determineWinner publishes for two healths.
Outcome(ph, eh) ==
  IF ph = eh THEN "Tie"
  ELSE IF ph > eh THEN "Player 1 Wins" ELSE "Enemy Wins"

\* Mutant: determineWinner without its clearTimeout.
determineWinnerNoClear(w, who) ==
  [w EXCEPT !.gameRunning = FALSE,
            !.result = Outcome(w.player.health, w.enemy.health),
            !.evals[who] = @ + 1]

\* determineWinner({player, enemy, timerId}), called by `who`.
determineWinner(w, who) ==
  [w EXCEPT !.timeouts = @ \ {w.timerId},
            !.gameRunning = FALSE,
            !.result = Outcome(w.player.health, w.enemy.health),
            !.evals[who] = @ + 1]

\* Mutant: the countdown does not schedule its next step.
decreaseTimerOnce(w) ==
  LET w1 == IF w.timer > 0
            THEN [w EXCEPT !.timer = @ - 1, !.decrements = @ + 1]
            ELSE w
  IN  IF w1.timer = 0 THEN determineWinner(w1, "timer") ELSE w1

\* Mutant: the countdown ends the match one second early.
decreaseTimerEarly(w) ==
  LET w1 == IF w.timer > 0
            THEN [w EXCEPT !.timerId = @ + 1,
                           !.timeouts = @ \cup {w.timerId + 1},
                           !.timer = @ - 1,
                           !.decrements = @ + 1]
            ELSE w
  IN  IF w1.timer <= 1 THEN determineWinner(w1, "timer") ELSE w1

\* decreaseTimer()
decreaseTimer(w) ==
  LET w1 == IF w.timer > 0
            THEN [w EXCEPT !.timerId = @ + 1,
                           !.timeouts = @ \cup {w.timerId + 1},
                           !.timer = @ - 1,
                           !.decrements = @ + 1]
            ELSE w
  IN  IF w1.timer = 0 THEN determineWinner(w1, "timer") ELSE w1

\* animate(), "Reset Velocity" and "Player Movement".
playerMovement(w) ==
  LET p == w.player
  IN  IF ~p.isDead /\ w.gameRunning
      THEN IF w.keys.a /\ p.lastKey = "a"
           THEN [w EXCEPT !.player.vx = -PlayerSpeed, !.player.direction = -1]
           ELSE IF w.keys.d /\ p.lastKey = "d"
           THEN [w EXCEPT !.player.vx = PlayerSpeed, !.player.direction = 1]
           ELSE [w EXCEPT !.player.vx = 0]
      ELSE [w EXCEPT !.player.vx = 0]

\* Mutant: the enemy keeps chasing inside its attack range.
updateEnemyAIChase(w, rnd) ==
  LET e == w.enemy
      distanceX == w.player.x - e.x
      distance == Abs(distanceX)
  IN  IF e.isDead \/ ~w.gameRunning
      THEN [w EXCEPT !.enemy.vx = 0]
      ELSE IF distance < DetectionRange
      THEN IF distanceX > 0
           THEN [w EXCEPT !.enemy.vx = EnemySpeed, !.enemy.direction = 1]
           ELSE [w EXCEPT !.enemy.vx = -EnemySpeed, !.enemy.direction = -1]
      ELSE IF distance <= AttackRange
      THEN LET e1 == [e EXCEPT !.vx = 0,
                               !.direction = IF distanceX > 0 THEN 1 ELSE -1]
           IN  [w EXCEPT !.enemy = IF rnd THEN attack(e1) ELSE e1]
      ELSE [w EXCEPT !.enemy.vx = 0]

\* updateEnemyAI(); rnd is the outcome of Math.random() < 0.02.
updateEnemyAI(w, rnd) ==
  LET e == w.enemy
      distanceX == w.player.x - e.x
      distance == Abs(distanceX)
  IN  IF e.isDead \/ ~w.gameRunning
      THEN [w EXCEPT !.enemy.vx = 0]
      ELSE IF distance < DetectionRange /\ distance > AttackRange
      THEN IF distanceX > 0
           THEN [w EXCEPT !.enemy.vx = EnemySpeed, !.enemy.direction = 1]
           ELSE [w EXCEPT !.enemy.vx = -EnemySpeed, !.enemy.direction = -1]
      ELSE IF distance <= AttackRange
      THEN LET e1 == [e EXCEPT !.vx = 0,
                               !.direction = IF distanceX > 0 THEN 1 ELSE -1]
           IN  [w EXCEPT !.enemy = IF rnd THEN attack(e1) ELSE e1]
      ELSE [w EXCEPT !.enemy.vx = 0]

\* animate(), "Collision Detection: Player hitting Enemy".
playerHitsEnemy(w) ==
  IF rectangularCollision(w.player, w.enemy)
     /\ w.player.isAttacking /\ w.gameRunning
  THEN [w EXCEPT !.player.isAttacking = FALSE,
                 !.enemy = IF ~w.enemy.isDead THEN takeHit(@, Damage) ELSE @]
  ELSE w

\* Mutant: an enemy killed earlier in the frame no longer lands its blow.
enemyHitsPlayerAlive(w) ==
  IF rectangularCollision(w.enemy, w.player)
     /\ w.enemy.isAttacking /\ w.gameRunning /\ ~w.enemy.isDead
  THEN [w EXCEPT !.enemy.isAttacking = FALSE,
                 !.player = IF ~w.player.isDead THEN takeHit(@, Damage) ELSE @]
  ELSE w

\* animate(), "Collision Detection: Enemy hitting Player".
enemyHitsPlayer(w) ==
  IF rectangularCollision(w.enemy, w.player)
     /\ w.enemy.isAttacking /\ w.gameRunning
  THEN [w EXCEPT !.enemy.isAttacking = FALSE,
                 !.player = IF ~w.player.isDead THEN takeHit(@, Damage) ELSE @]
  ELSE w

\* Mutant: only the enemy's defeat ends the match.
endGameEnemyOnly(w) == w.enemy.health <= 0

\* Whether animate()'s "End Game Check" calls determineWinner.
endGame(w) == w.enemy.health <= 0 \/ w.player.health <= 0

endGameCheck(w) == IF endGame(w) THEN determineWinner(w, "loop") ELSE w

\* animate(): the frame up to the collision checks ...
updateEntities(w) ==
  [w EXCEPT !.player = update(@), !.enemy = update(@)]

beforeCollisions(w, rnd) ==
  updateEnemyAI(playerMovement(updateEntities(w)), rnd)

\* ... and the whole frame.
animate(w, rnd) ==
  endGameCheck(enemyHitsPlayer(playerHitsEnemy(beforeCollisions(w, rnd))))

\* Mutant: the listener does not look at gameRunning.
keydownAlways(w, key) ==
  IF key = "d"
  THEN [w EXCEPT !.keys.d = TRUE, !.player.lastKey = "d"]
  ELSE IF key = "a"
  THEN [w EXCEPT !.keys.a = TRUE, !.player.lastKey = "a"]
  ELSE IF key = "w"
  THEN IF w.player.vy = 0 THEN [w EXCEPT !.player.vy = -T(JumpImpulse)] ELSE w
  ELSE [w EXCEPT !.player = attack(@)]

\* Mutant: the jump key does not look at the vertical velocity.
keydownAnywhere(w, key) ==
  IF ~w.gameRunning THEN w
  ELSE IF key = "d"
  THEN [w EXCEPT !.keys.d = TRUE, !.player.lastKey = "d"]
  ELSE IF key = "a"
  THEN [w EXCEPT !.keys.a = TRUE, !.player.lastKey = "a"]
  ELSE IF key = "w"
  THEN [w EXCEPT !.player.vy = -T(JumpImpulse)]
  ELSE [w EXCEPT !.player = attack(@)]

\* The keydown listener; key is "d", "a", "w" or " ".
keydown(w, key) ==
  IF ~w.gameRunning THEN w
  ELSE IF key = "d"
  THEN [w EXCEPT !.keys.d = TRUE, !.player.lastKey = "d"]
  ELSE IF key = "a"
  THEN [w EXCEPT !.keys.a = TRUE, !.player.lastKey = "a"]
  ELSE IF key = "w"
  THEN IF w.player.vy = 0 THEN [w EXCEPT !.player.vy = -T(JumpImpulse)] ELSE w
  ELSE [w EXCEPT !.player = attack(@)]

\* The keyup listener; key is "d" or "a".
keyup(w, key) ==
  IF key = "d" THEN [w EXCEPT !.keys.d = FALSE]
               ELSE [w EXCEPT !.keys.a = FALSE]

\* The callback of attack()'s setTimeout, for the player or the enemy.
attackReset(w, who) ==
  [w EXCEPT ![who].isAttacking = FALSE, ![who].resets = @ - 1]

\* The callback of decreaseTimer's setTimeout whose handle is id.
timerCallback(w, id) == decreaseTimer([w EXCEPT !.timeouts = @ \ {id}])

\* The end of the script: decreaseTimer(); animate();
startGame(w) == animate(decreaseTimer(w), FALSE)

\* ----------------------------------------------------------------- history
\* Both attacks are live and each attack box is on the other's body when a
\* frame reaches its collision checks.
MutualHit(w) ==
  /\ w.gameRunning /\ w.player.isAttacking /\ w.enemy.isAttacking
  /\ rectangularCollision(w.player, w.enemy)
  /\ rectangularCollision(w.enemy, w.player)

\* The frame's update() of s finds the projected position on or under the line.
Lands(s) == ~s.isDead /\ Grounded(s.y + s.vy, s.vy)

Airborne(s) == s.y # GroundLine \/ s.vy # 0

NoStep == [op |-> "none", key |-> "", mutual |-> FALSE, landed |-> FALSE]

FrameStep(w, rnd) ==
  [op |-> "frame", key |-> "",
   mutual |-> MutualHit(beforeCollisions(w, rnd)),
   landed |-> Airborne(w.player) /\ Lands(w.player)]

\* ------------------------------------------------------------------ actions
Becomes(w) ==
  /\ player' = w.player
  /\ enemy' = w.enemy
  /\ keys' = w.keys
  /\ timer' = w.timer
  /\ timerId' = w.timerId
  /\ timeouts' = w.timeouts
  /\ gameRunning' = w.gameRunning
  /\ result' = w.result
  /\ evals' = w.evals
  /\ decrements' = w.decrements

\* The script runs to its end: the first countdown step and the first frame.
Start ==
  /\ ~started
  /\ started' = TRUE
  /\ Becomes(startGame(World))
  /\ last' = [NoStep EXCEPT !.op = "start"]
  /\ UNCHANGED frames

\* One frame.  budget: the frame counts against MaxFrames.
Frame(rnd, budget) ==
  /\ started
  /\ rnd => enemy.resets < MaxPending
  /\ endGame(enemyHitsPlayer(playerHitsEnemy(beforeCollisions(World, rnd))))
       => evals.loop < MaxEvals
  /\ IF budget THEN frames < MaxFrames /\ frames' = frames + 1
               ELSE UNCHANGED frames
  /\ Becomes(animate(World, rnd))
  /\ last' = FrameStep(World, rnd)
  /\ UNCHANGED started

KeyDown(key) ==
  /\ started
  /\ key = " " => player.resets < MaxPending
  /\ Becomes(keydown(World, key))
  /\ last' = [NoStep EXCEPT !.op = "keydown", !.key = key]
  /\ UNCHANGED <<started, frames>>

KeyUp(key) ==
  /\ started
  /\ Becomes(keyup(World, key))
  /\ last' = [NoStep EXCEPT !.op = "keyup"]
  /\ UNCHANGED <<started, frames>>

AttackReset(who) ==
  /\ World[who].resets > 0
  /\ Becomes(attackReset(World, who))
  /\ last' = [NoStep EXCEPT !.op = "reset"]
  /\ UNCHANGED <<started, frames>>

TimerFire ==
  /\ \E id \in timeouts : Becomes(timerCallback(World, id))
  /\ last' = [NoStep EXCEPT !.op = "timer"]
  /\ UNCHANGED <<started, frames>>

\* ------------------------------------------------------------ specifications
Opens(w, isStarted) ==
  /\ player = w.player
  /\ enemy = w.enemy
  /\ keys = w.keys
  /\ timer = w.timer
  /\ timerId = w.timerId
  /\ timeouts = w.timeouts
  /\ gameRunning = w.gameRunning
  /\ result = w.result
  /\ evals = w.evals
  /\ decrements = w.decrements
  /\ started = isStarted
  /\ frames = 0
  /\ last = NoStep

\* A match from the construction of its objects, in which the player jumps
\* and strikes but does not walk; the fighters stay 700 pixels apart.
Init == Opens(Constructed, FALSE)

Next ==
  \/ Start
  \/ \E rnd \in BOOLEAN : Frame(rnd, FALSE)
  \/ KeyDown("w")
  \/ KeyDown(" ")
  \/ AttackReset("player")
  \/ TimerFire

Spec == Init /\ [][Next]_vars

\* Replays of the program from its construction state, by its own callbacks:
\* n frames in which the enemy does not strike, or n countdown callbacks.  A
\* replay stops where the match ends (the test also has TLC evaluate w before
\* it descends).
RECURSIVE Replay(_, _, _)
Replay(w, step, n) ==
  IF ~w.gameRunning \/ n = 0 THEN w
  ELSE IF n = 1
  THEN IF step = "frame" THEN animate(w, FALSE)
                         ELSE timerCallback(w, w.timerId)
  ELSE Replay(Replay(w, step, n \div 2), step, n - n \div 2)

Countdown(w, left) == Replay(w, "timer", w.timer - left)

Opened == startGame(Constructed)

\* The player has held "d" for the 110 frames it takes the fighters to come
\* within AttackRange of each other, released it and stood for two frames;
\* the clock has run down to TimerLeft.
CloseQuarters ==
  LET met == Replay(keydown(Opened, "d"), "frame", 110)
      still == Replay(keyup(met, "d"), "frame", 2)
  IN  Countdown(still, TimerLeft)

\* The player is walking left (right) and is two frames from the wall, after
\* 19 (174) frames with "a" ("d") held.
NearLeftWall ==
  Countdown(Replay(keydown(Opened, "a"), "frame", 19), TimerLeft)
NearRightWall ==
  Countdown(Replay(keydown(Opened, "d"), "frame", 174), TimerLeft)

\* One blow that lands, with its reset timeout: the player's (space, a frame)
\* or the enemy's (a frame in which the AI strikes).
Blow(w, who) ==
  IF who = "player"
  THEN attackReset(animate(keydown(w, " "), FALSE), "player")
  ELSE attackReset(animate(w, TRUE), "enemy")

RECURSIVE Blows(_, _)
Blows(w, n) ==
  IF ~w.gameRunning \/ n = 0 THEN w
  ELSE Blows(Blow(Blow(w, "player"), "enemy"), n - 1)

\* Close quarters after nine blows each way: each fighter is one blow from
\* defeat.
LastBlows == Blows(CloseQuarters, 9)

\* A fight at close quarters: strikes of both fighters, no walking.
InitFight == Opens(CloseQuarters, TRUE)

NextFight ==
  \/ \E rnd \in BOOLEAN : Frame(rnd, FALSE)
  \/ KeyDown(" ")
  \/ AttackReset("player")
  \/ AttackReset("enemy")
  \/ TimerFire

SpecFight == InitFight /\ [][NextFight]_vars

\* The same fight with the event loop's guarantee that a timeout that is due
\* is run: the countdown's and each fighter's attack reset.
SpecFightLive ==
  /\ SpecFight
  /\ WF_vars(TimerFire)
  /\ WF_vars(AttackReset("player"))
  /\ WF_vars(AttackReset("enemy"))

\* The match from construction, with the script running to its end and due
\* countdown timeouts being run.
SpecLive == Spec /\ WF_vars(Start) /\ WF_vars(TimerFire)

\* MaxFrames frames of walking and jumping, the fighters out of reach of each
\* other: from the opening and from either wall.
InitMove ==
  \E w \in {Countdown(Opened, TimerLeft), NearLeftWall, NearRightWall} :
     Opens(w, TRUE)

NextMove ==
  \/ \E rnd \in BOOLEAN : Frame(rnd, TRUE)
  \/ \E key \in {"a", "d", "w"} : KeyDown(key)
  \/ \E key \in {"a", "d"} : KeyUp(key)
  \/ TimerFire

SpecMove == InitMove /\ [][NextMove]_vars

\* ------------------------------------------------------------------- claims
Sprites == {player, enemy}
Ended == ~gameRunning
Evaluations == evals.timer + evals.loop
AfterFrame == last.op \in {"frame", "start"}

\* C1: the health of either fighter is an integer from 0 to 100, and a fighter
\* is dead exactly when its health is 0.
C1_HealthRange ==
  \A s \in Sprites :
     /\ s.health \in 0..StartHealth
     /\ s.isDead <=> s.health = 0

\* A fighter has been beaten to 0 and the other has been hit as well.
C1_Witness ==
  /\ player.health = 0 /\ player.isDead
  /\ enemy.health > 0 /\ enemy.health < StartHealth

\* C2: determineWinner runs once per match: never while the match is running
\* and exactly once by the time it has ended.
C2_EvaluatedOnce ==
  /\ gameRunning => Evaluations = 0
  /\ Ended => Evaluations = 1

\* C3: the match stops running only in a step that leaves the clock at 0 or
\* a fighter's health at 0, and a match that has stopped never runs again.
C3_OneWay ==
  [][/\ gameRunning /\ ~gameRunning'
          => timer' = 0 \/ player'.health = 0 \/ enemy'.health = 0
     /\ ~gameRunning => ~gameRunning']_vars

\* The match was ended by a knockout with time left, and steps followed.
C3_Witness ==
  /\ Ended /\ timer > 0 /\ enemy.health = 0 /\ player.health > 0
  /\ last.op = "reset"

\* C4: once the match has been evaluated the message shown is "Tie" for equal
\* healths, "Player 1 Wins" for a healthier player and "Enemy Wins" otherwise,
\* and the message of an ended match never changes.
C4_Result ==
  /\ [](Ended =>
          result = IF player.health = enemy.health THEN "Tie"
                   ELSE IF player.health > enemy.health THEN "Player 1 Wins"
                   ELSE "Enemy Wins")
  /\ [][Ended => result' = result]_vars

\* Both fighters fell in the same frame: 0 against 0 is a tie.
C4_Witness ==
  Ended /\ player.health = 0 /\ enemy.health = 0 /\ result = "Tie"

\* C5: with no knockout, the clock goes from 60 down by exactly 1 at each run
\* of decreaseTimer, is at 0 after exactly 60 decrements, never goes below 0,
\* has no countdown timeout pending once it is at 0, and the timer has run
\* determineWinner exactly once when it is at 0 and never before.
C5_Countdown ==
  /\ [](/\ timer \in 0..StartTimer
        /\ timer = StartTimer - decrements
        /\ Cardinality(timeouts) <= 1
        /\ timer = 0 => timeouts = {}
        /\ evals.timer = IF timer = 0 THEN 1 ELSE 0)
  /\ [][last'.op \in {"timer", "start"} => timer' = timer - 1]_vars

\* The clock has run out.
C5_Witness ==
  /\ timer = 0 /\ decrements = StartTimer /\ evals.timer = 1 /\ Ended
  /\ player.health = StartHealth /\ enemy.health = StartHealth

EndedByHealth == Ended /\ (player.health = 0 \/ enemy.health = 0)

\* C6: once the match has ended by a knockout no countdown timeout is
\* pending, no countdown callback runs and the clock does not change.
C6_Cancelled ==
  /\ [](EndedByHealth => timeouts = {})
  /\ [][EndedByHealth => timer' = timer /\ last'.op # "timer"]_vars

\* A knockout with time left, and a later frame has run.
C6_Witness ==
  EndedByHealth /\ timer > 0 /\ evals.loop = 2 /\ last.op = "frame"

\* C7: in a frame of a running match that reaches its collision checks with
\* both attacks live and each attack box on the other's body, both fighters
\* lose 10 health (not below 0) and both attack flags are cleared.
C7_MutualHit ==
  [][last'.op = "frame" /\ last'.mutual =>
       /\ player'.health = IF player.health > Damage
                           THEN player.health - Damage ELSE 0
       /\ enemy'.health = IF enemy.health > Damage
                          THEN enemy.health - Damage ELSE 0
       /\ ~player'.isAttacking /\ ~enemy'.isAttacking]_vars

\* A mutual hit whose first blow killed the enemy: the player was hit too.
C7_Witness ==
  /\ last.op = "frame" /\ last.mutual
  /\ enemy.health = 0 /\ evals.loop = 1
  /\ player.health > 0

\* C8: each fighter's x is from 0 to stageWidth - width.
C8_InStage ==
  \A s \in Sprites : s.x >= 0 /\ s.x <= GAME_WIDTH - Width

\* The right wall has stopped the player, who still walks right: 974 is no
\* multiple of the walking speed away from the start.
C8_Witness ==
  /\ last.op = "frame"
  /\ player.x = GAME_WIDTH - Width /\ player.vx = PlayerSpeed

\* C9: no fighter is ever under the ground line; a frame whose displaced
\* position, or its look-ahead by one more frame, is on or under the line
\* leaves a living fighter on the line with no vertical velocity; and a
\* fighter standing on the line stays there, with no vertical velocity, until
\* a key press gives it the jump impulse.
C9_Ground ==
  /\ [](\A s \in Sprites : s.y <= GroundLine)
  /\ [][AfterFrame' =>
          /\ (~player.isDead /\ (player.y + player.vy >= GroundLine
                                 \/ player.y + 2 * player.vy >= GroundLine))
               => player'.y = GroundLine /\ player'.vy = 0
          /\ (~enemy.isDead /\ (enemy.y + enemy.vy >= GroundLine
                                \/ enemy.y + 2 * enemy.vy >= GroundLine))
               => enemy'.y = GroundLine /\ enemy'.vy = 0]_vars
  /\ [][/\ (/\ player.y = GroundLine /\ player.vy = 0
            /\ ~(last'.op = "keydown" /\ player'.vy = -T(JumpImpulse)))
             => player'.y = GroundLine /\ player'.vy = 0
        /\ (enemy.y = GroundLine /\ enemy.vy = 0)
             => enemy'.y = GroundLine /\ enemy'.vy = 0]_vars

\* The player has come down from a jump in the latest frame: the enemy, whose
\* attack box is level with the ground, stood there before that frame.
C9_Witness ==
  /\ last.op = "frame" /\ last.landed
  /\ player.y = GroundLine /\ player.vy = 0
  /\ enemy.aby = GroundLine + T(OffsetY)

\* C10 as stated: after a frame each attack box is aligned with the fighter's
\* position and facing at that moment.
C10_AlignedNow ==
  AfterFrame =>
    \A s \in Sprites :
       /\ s.abx = IF s.direction = 1 THEN s.x + OffsetX
                  ELSE s.x - AttackBoxWidth + Width - OffsetX
       /\ s.aby = s.y + T(OffsetY)

\* C10 amended: after a frame the attack box of a fighter that was alive when
\* the frame began is aligned with the position and facing the fighter had
\* when the frame began.
C10_AlignedBefore ==
  [][AfterFrame' =>
       /\ ~player.isDead =>
            /\ player'.abx = IF player.direction = 1 THEN player.x + OffsetX
                             ELSE player.x - AttackBoxWidth + Width - OffsetX
            /\ player'.aby = player.y + T(OffsetY)
       /\ ~enemy.isDead =>
            /\ enemy'.abx = IF enemy.direction = 1 THEN enemy.x + OffsetX
                            ELSE enemy.x - AttackBoxWidth + Width - OffsetX
            /\ enemy'.aby = enemy.y + T(OffsetY)]_vars

\* A frame has moved the player, facing left, away from its attack box.
C10_Witness ==
  /\ last.op = "frame" /\ ~player.isDead /\ player.direction = -1
  /\ player.abx # player.x - AttackBoxWidth + Width - OffsetX

\* MaxFrames frames at close quarters, each fighter one blow from defeat: the
\* player walks away to the left, jumps and strikes, the enemy follows and
\* strikes.
InitBrawl == Opens(LastBlows, TRUE)

NextBrawl ==
  \/ \E rnd \in BOOLEAN : Frame(rnd, TRUE)
  \/ \E key \in {"a", "w", " "} : KeyDown(key)
  \/ AttackReset("player")
  \/ AttackReset("enemy")
  \/ TimerFire

SpecBrawl == InitBrawl /\ [][NextBrawl]_vars

\* C11: after the AI evaluation of a frame, with d the player's x minus the
\* enemy's x at that evaluation: for a living enemy in a running match the
\* enemy moves at EnemySpeed towards the player and faces it when
\* AttackRange < |d| < DetectionRange, stands and faces it when
\* |d| <= AttackRange, stands with its facing unchanged when
\* |d| >= DetectionRange, and begins an attack only when |d| <= AttackRange;
\* a dead enemy, or any enemy once the match has ended, stands, keeps its
\* facing and begins no attack.
C11_EnemyAI ==
  [][last'.op = "frame" =>
      LET d == player'.x - enemy'.x
          attacked == enemy'.resets > enemy.resets
          faces == /\ d > 0 => enemy'.direction = 1
                   /\ d < 0 => enemy'.direction = -1
      IN  IF ~enemy.isDead /\ gameRunning
          THEN /\ Abs(d) > AttackRange /\ Abs(d) < DetectionRange
                    => /\ enemy'.vx = IF d > 0 THEN EnemySpeed ELSE -EnemySpeed
                       /\ faces
               /\ Abs(d) <= AttackRange => enemy'.vx = 0 /\ faces
               /\ Abs(d) >= DetectionRange
                    => enemy'.vx = 0 /\ enemy'.direction = enemy.direction
               /\ attacked => Abs(d) <= AttackRange
          ELSE /\ enemy'.vx = 0
               /\ enemy'.direction = enemy.direction
               /\ ~attacked]_vars

\* The player has walked out of the enemy's attack range and the enemy
\* follows.
C11_Witness ==
  /\ AfterFrame /\ gameRunning
  /\ enemy.vx = -EnemySpeed /\ enemy.direction = -1
  /\ Abs(player.x - enemy.x) > AttackRange
  /\ Abs(player.x - enemy.x) < DetectionRange

\* C12: after the movement step of a frame of a running match with the player
\* alive, the player's horizontal velocity is -PlayerSpeed if only "a" is
\* held, PlayerSpeed if only "d" is held, 0 if neither is held, and that of
\* the key pressed last if both are held.
C12_KeysDecide ==
  AfterFrame /\ gameRunning /\ ~player.isDead
    => player.vx = IF keys.a /\ ~keys.d THEN -PlayerSpeed
                   ELSE IF keys.d /\ ~keys.a THEN PlayerSpeed
                   ELSE IF ~keys.a /\ ~keys.d THEN 0
                   ELSE IF player.lastKey = "a" THEN -PlayerSpeed
                   ELSE PlayerSpeed

\* C13: once the match has ended a key press changes neither fighter (no
\* attack flag, no jump impulse), no step begins an attack of the player or of
\* the enemy, and every frame leaves the player with horizontal velocity 0 and
\* the facing it had.
C13_InputsIgnored ==
  [][Ended =>
      /\ last'.op = "keydown" => player' = player /\ enemy' = enemy
      /\ player'.resets <= player.resets
      /\ player'.isAttacking => player.isAttacking
      /\ player'.vy = -T(JumpImpulse) => player.vy = -T(JumpImpulse)
      /\ enemy'.resets <= enemy.resets
      /\ enemy'.isAttacking => enemy.isAttacking
      /\ last'.op = "frame"
           => player'.vx = 0 /\ player'.direction = player.direction]_vars

\* After the end, with "a" still held, the living player on the ground
\* presses the jump key.
C13_Witness ==
  /\ Ended /\ ~player.isDead
  /\ last.op = "keydown" /\ last.key = "w"
  /\ keys.a
  /\ player.y = GroundLine /\ player.vy = 0

\* C14: once the script has run (so that key events can be delivered), the
\* player's vertical velocity is 0 only while it stands on the ground line;
\* so a key press changes the vertical velocity only of a player at rest on
\* the ground: never during the opening drop, at the apex of a jump, or a
\* second time before landing.
C14_JumpOnGround ==
  /\ [](started /\ player.vy = 0 => player.y = GroundLine)
  /\ [][last'.op = "keydown" /\ player'.vy # player.vy
          => /\ player.y = GroundLine /\ player.vy = 0
             /\ player'.vy = -T(JumpImpulse)]_vars

\* The jump key is pressed just past the apex of a jump, where the vertical
\* velocity is nearest to 0.
C14_Witness ==
  /\ gameRunning /\ ~player.isDead
  /\ last.op = "keydown" /\ last.key = "w"
  /\ player.y < GroundLine
  /\ player.vy > 0 /\ player.vy < GRAVITY

\* The fields of a fighter that make up the state of play.
Play(s) == <<s.x, s.y, s.vx, s.vy, s.direction, s.health, s.isDead,
             s.isAttacking>>

\* C15: once the match has ended, a frame changes neither fighter's position,
\* velocity, facing, health, isDead nor isAttacking.
C15_FrozenAfterEnd ==
  [][Ended /\ last'.op = "frame"
      => Play(player') = Play(player) /\ Play(enemy') = Play(enemy)]_vars

\* C16: the reset of an attack is last-wins: when a reset callback of a
\* fighter runs while a later reset of the same fighter is still pending, the
\* fighter's attack flag, if set, stays set.
C16_LastWins ==
  [][last'.op = "reset" =>
      /\ player.isAttacking /\ player'.resets < player.resets
           /\ player'.resets > 0 => player'.isAttacking
      /\ enemy.isAttacking /\ enemy'.resets < enemy.resets
           /\ enemy'.resets > 0 => enemy'.isAttacking]_vars

\* Where a fighter and its attack box are, and its vertical velocity.
Place(s) == <<s.x, s.y, s.vy, s.abx, s.aby>>

\* C17: Sprite.update leaves a dead fighter as it is (position, velocity and
\* attack box), and no step moves a dead fighter or its attack box: it stays
\* where it died.
C17_DeadStays ==
  /\ [](\A s \in Sprites : s.isDead => update(s) = s)
  /\ [][/\ player.isDead => Place(player') = Place(player)
        /\ enemy.isDead => Place(enemy') = Place(enemy)]_vars

\* The player died in the air, and a later frame has run: it hangs there
\* with the vertical velocity it had.
C17_Witness ==
  /\ AfterFrame /\ player.isDead
  /\ player.y < GroundLine /\ player.vy # 0
  /\ evals.loop >= 2

\* C18: between frames a running match has both fighters alive with health
\* above 0; and in the frame that runs next, whatever the AI draws, the match
\* being running at the first collision check means the enemy (its defender)
\* is alive, and at the second that the player (its defender) is alive: the
\* guards on isDead never keep a blow of a running match from landing.
C18_DefenderAlive ==
  /\ gameRunning => \A s \in Sprites : s.health > 0 /\ ~s.isDead
  /\ started =>
       \A rnd \in BOOLEAN :
         LET first == beforeCollisions(World, rnd)
             second == playerHitsEnemy(first)
         IN  /\ first.gameRunning => ~first.enemy.isDead
             /\ second.gameRunning => ~second.player.isDead

\* Blows have landed on both fighters, each is one blow from defeat, and the
\* match is running.
C18_Witness ==
  /\ AfterFrame /\ gameRunning
  /\ player.health = Damage /\ enemy.health = Damage

\* C19: a fighter whose attack flag is set has at least one attack reset
\* pending; so, pending timeouts being run, a set attack flag is always
\* cleared later.
C19_ResetPending ==
  /\ [](\A s \in Sprites : s.isAttacking => s.resets > 0)
  /\ (player.isAttacking ~> ~player.isAttacking)
  /\ (enemy.isAttacking ~> ~enemy.isAttacking)

\* The player has begun a second attack inside the window of the first.
C19_Witness ==
  /\ last.op = "keydown" /\ last.key = " "
  /\ player.isAttacking /\ player.resets = 2

\* C20: the countdown's timeouts being run when due, every match ends; and
\* until it ends exactly one countdown timeout is pending: only the step that
\* ends the match leaves none.
C20_Terminates ==
  /\ <>Ended
  /\ [](started /\ gameRunning => Cardinality(timeouts) = 1)
  /\ [][timeouts # {} /\ timeouts' = {} => gameRunning /\ Ended']_vars

\* The match was ended by the countdown alone, both fighters unhurt.
C20_Witness ==
  /\ Ended /\ timer = 0 /\ last.op = "timer"
  /\ evals = [timer |-> 1, loop |-> 0]
  /\ player.health = StartHealth /\ enemy.health = StartHealth

====
